---- MODULE Spec2Model ----
(***************************************************************************)
(* A model of the Bloom filter of BloomFilterHW.py: the sizing computation *)
(* __bitsNeeded, the constructor, insert, find, falsePositiveRate and      *)
(* numBitsSet, with the properties the specification states about them.    *)
(*                                                                         *)
(* Numbers.  maxFalsePositive and the value falsePositiveRate returns are  *)
(* rationals, written <<numerator, denominator>>.  The floating-point      *)
(* rounding of Python is not modelled; the values __bitsNeeded returns for *)
(* the arguments enumerated here are the ones CPython returns.             *)
(***************************************************************************)
EXTENDS Integers, FiniteSets

\* ------------------------------------------------------------------ bounds
\* numKeys ranges over 0..MaxNumKeys, numHashes over 0..MaxNumHashes.
MaxNumKeys == 2
MaxNumHashes == 2
\* BitHash returns a value in 0..HashMax.
HashMax == 2

\* The keys the callers insert and look up (lines of the word list).
Keys == {"a", "b"}

\* The values of maxFalsePositive: 0, 1/2, 3/4 and 1.
FalsePositiveVals == {<<0, 1>>, <<1, 2>>, <<3, 4>>, <<1, 1>>}

VARIABLES
    phase,       \* "new" before BloomFilter(...), then "ready" or "failed"
    args,        \* the arguments BloomFilter(...) is called with
    err,         \* the exception that escaped the last call, or "none"
    hashOf,      \* BitHash: the hash value of <<key, seed>>
    bitVector,   \* self.__bitVector, a function 0..N-1 -> {0, 1}
    bitsSet,     \* self.__bitsSet
    numHashes,   \* self.__numHashes
    inserted,    \* the keys insert has been called with
    ret          \* the last call on the filter: [op, key, value]

vars == <<phase, args, err, hashOf, bitVector, bitsSet, numHashes, inserted, ret>>

\* ------------------------------------------------------------ arithmetic
RECURSIVE Pow(_, _)
Pow(x, e) == IF e = 0 THEN 1 ELSE x * Pow(x, e - 1)

RatLeq(p, q) == p[1] * q[2] <= q[1] * p[2]

\* len(self.__bitVector)
Len(bv) == Cardinality(DOMAIN bv)

\* BitVector(size = n): n bits, all 0.
NewBitVector(n) == [i \in 0..(n - 1) |-> 0]

\* The number of 1-bits of a bit vector, by an independent scan.
RECURSIVE PopCountUpTo(_, _)
PopCountUpTo(bv, n) ==
    IF n = 0 THEN 0 ELSE PopCountUpTo(bv, n - 1) + bv[n - 1]

PopCount(bv) == PopCountUpTo(bv, Len(bv))

\* --------------------------------------------------------------- sizing
\* m * (1 - phi ** (1/n)) <= d, where phi = 1 - P ** (1/d) and m >= d:
\* equivalently ((m-d)/m)^n <= 1 - P^(1/d), that is
\* P <= (1 - ((m-d)/m)^n)^d, in integers with P = a/b:
\* a * m^(n*d) <= b * (m^n - (m-d)^n)^d.
FitsIn(m, n, d, P) ==
    P[1] * Pow(m, n * d) <= P[2] * Pow(Pow(m, n) - Pow(m - d, n), d)

\* int(d / (1 - phi ** (1/n))): the largest m with m * (1 - phi ** (1/n)) <= d.
\* Every m <= d has it, since 0 < 1 - phi ** (1/n) <= 1.
RECURSIVE TruncatedQuotient(_, _, _, _)
TruncatedQuotient(m, n, d, P) ==
    IF FitsIn(m + 1, n, d, P) THEN TruncatedQuotient(m + 1, n, d, P) ELSE m

\* __bitsNeeded(numKeys, numHashes, maxFalsePositive), for numKeys >= 0,
\* numHashes >= 0 and 0 <= maxFalsePositive <= 1.  No argument is checked:
\* 1/numHashes and 1/numKeys divide by zero when the argument is 0, and with
\* maxFalsePositive = 0 phi is 1 and the divisor 1 - phi ** (1/n) is 0.
\* With maxFalsePositive = 1 phi is 0 and the result is int(d / 1.0) = d.
bitsNeeded(numKeysArg, numHashesArg, maxFalsePositive) ==
    IF numHashesArg = 0 THEN [err |-> "ZeroDivisionError", N |-> 0]
    ELSE IF numKeysArg = 0 THEN [err |-> "ZeroDivisionError", N |-> 0]
    ELSE IF maxFalsePositive[1] = 0 THEN [err |-> "ZeroDivisionError", N |-> 0]
    ELSE [err |-> "none",
          N |-> TruncatedQuotient(numHashesArg, numKeysArg, numHashesArg,
                                  maxFalsePositive)]

\* ------------------------------------------------------------ the filter
NoCall == [op |-> "none", key |-> "", value |-> 0]

\* BitHash(key, seed)
BitHash(key, seed) == hashOf[<<key, seed>>]

\* a location computed without the modulo
LocationNoModulo(bv, key, seed) == BitHash(key, seed)

\* location = hashIndex % len(self.__bitVector)
Location(bv, key, seed) == BitHash(key, seed) % Len(bv)

\* The loop of insert from iteration i (0-based) on, on the state
\* st = [bv, count, err].  Iteration i hashes with seed i + 1.
RECURSIVE InsertLoopMissingCheck(_, _, _, _)
InsertLoopMissingCheck(st, d, key, i) ==
    IF i >= d \/ st.err # "none" THEN st
    ELSE IF Len(st.bv) = 0
         THEN [st EXCEPT !.err = "ZeroDivisionError"]
         ELSE LET location == Location(st.bv, key, i + 1) IN
              InsertLoopMissingCheck(
                  [st EXCEPT !.count = @ + 1, !.bv[location] = 1],
                  d, key, i + 1)

RECURSIVE InsertLoop(_, _, _, _)
InsertLoop(st, d, key, i) ==
    IF i >= d \/ st.err # "none" THEN st
    ELSE IF Len(st.bv) = 0
         THEN [st EXCEPT !.err = "ZeroDivisionError"]
         ELSE LET location == Location(st.bv, key, i + 1) IN
              IF location \notin DOMAIN st.bv
              THEN [st EXCEPT !.err = "IndexError"]
              ELSE IF st.bv[location] = 0
                   THEN InsertLoop(
                            [st EXCEPT !.count = @ + 1, !.bv[location] = 1],
                            d, key, i + 1)
                   ELSE InsertLoop(st, d, key, i + 1)

\* insert with one probe too few: for i in range(self.__numHashes - 1)
InsertOpShortLoop(bv, count, d, key) ==
    InsertLoop([bv |-> bv, count |-> count, err |-> "none"], d - 1, key, 0)

\* insert that counts every probe, without the check for a bit already set
InsertOpMissingCheck(bv, count, d, key) ==
    InsertLoopMissingCheck([bv |-> bv, count |-> count, err |-> "none"], d, key, 0)

\* insert(key) on the filter (bv, count, d): the filter afterwards
InsertOp(bv, count, d, key) ==
    InsertLoop([bv |-> bv, count |-> count, err |-> "none"], d, key, 0)

\* The loop of find from iteration i on: [value, err].
RECURSIVE FindLoop(_, _, _, _)
FindLoop(bv, d, key, i) ==
    IF i >= d THEN [value |-> TRUE, err |-> "none"]
    ELSE IF Len(bv) = 0 THEN [value |-> FALSE, err |-> "ZeroDivisionError"]
    ELSE LET location == Location(bv, key, i + 1) IN
         IF location \notin DOMAIN bv
         THEN [value |-> FALSE, err |-> "IndexError"]
         ELSE IF bv[location] = 0
              THEN [value |-> FALSE, err |-> "none"]
              ELSE FindLoop(bv, d, key, i + 1)

\* find that answers after its first probe
FindOpFirstProbeOnly(bv, d, key) == FindLoop(bv, IF d > 1 THEN 1 ELSE d, key, 0)

\* find(key) on the filter (bv, d)
FindOp(bv, d, key) == FindLoop(bv, d, key, 0)

\* falsePositiveRate that returns phi ** d
FalsePositiveRateOfPhi(bv, count, d) ==
    LET n == Len(bv) IN <<Pow(n - count, d), Pow(n, d)>>

\* falsePositiveRate(): phi = (len - bitsSet) / len; P = (1 - phi) ** d
FalsePositiveRateOf(bv, count, d) ==
    LET n == Len(bv)
        phi == <<n - count, n>>
        oneMinusPhi == <<phi[2] - phi[1], phi[2]>>
    IN  <<Pow(oneMinusPhi[1], d), Pow(oneMinusPhi[2], d)>>

\* ------------------------------------------------------------------ Init
\* The arguments of the call BloomFilter(n, d, P) to come.
Arguments ==
    [numKeys : 0..MaxNumKeys, numHashes : 0..MaxNumHashes,
     maxFalsePositive : FalsePositiveVals]

\* BitHash is any function of the key and the seed; insert and find call it
\* with the seeds 1..numHashes only.
Init ==
    /\ phase = "new"
    /\ args \in Arguments
    /\ err = "none"
    /\ hashOf \in [Keys \X (1..args.numHashes) -> 0..HashMax]
    /\ bitVector = NewBitVector(0)
    /\ bitsSet = 0
    /\ numHashes = 0
    /\ inserted = {}
    /\ ret = NoCall

\* --------------------------------------------------------------- actions
\* BloomFilter(args.numKeys, args.numHashes, args.maxFalsePositive)
Construct ==
    /\ phase = "new"
    /\ LET r == bitsNeeded(args.numKeys, args.numHashes, args.maxFalsePositive) IN
       IF r.err = "none"
       THEN /\ phase' = "ready"
            /\ err' = "none"
            /\ bitVector' = NewBitVector(r.N)
            /\ bitsSet' = 0
            /\ numHashes' = args.numHashes
       ELSE /\ phase' = "failed"
            /\ err' = r.err
            /\ UNCHANGED <<bitVector, bitsSet, numHashes>>
    /\ UNCHANGED <<args, hashOf, inserted, ret>>

\* a find that sets the bits it probes
FindSetsBits(key) ==
    /\ phase = "ready"
    /\ LET r == FindOp(bitVector, numHashes, key)
           s == InsertOp(bitVector, bitsSet, numHashes, key) IN
       /\ ret' = [op |-> "find", key |-> key, value |-> r.value]
       /\ err' = r.err
       /\ bitVector' = s.bv
       /\ bitsSet' = s.count
    /\ UNCHANGED <<phase, args, hashOf, numHashes, inserted>>

\* b.insert(key)
Insert(key) ==
    /\ phase = "ready"
    /\ LET s == InsertOp(bitVector, bitsSet, numHashes, key) IN
       /\ bitVector' = s.bv
       /\ bitsSet' = s.count
       /\ err' = s.err
    /\ inserted' = inserted \cup {key}
    /\ ret' = [op |-> "insert", key |-> key, value |-> 0]
    /\ UNCHANGED <<phase, args, hashOf, numHashes>>

\* b.find(key)
Find(key) ==
    /\ phase = "ready"
    /\ LET r == FindOp(bitVector, numHashes, key) IN
       /\ ret' = [op |-> "find", key |-> key, value |-> r.value]
       /\ err' = r.err
    /\ UNCHANGED <<phase, args, hashOf, bitVector, bitsSet, numHashes, inserted>>

\* b.falsePositiveRate()
FalsePositiveRate ==
    /\ phase = "ready"
    /\ ret' = [op |-> "falsePositiveRate", key |-> "",
               value |-> FalsePositiveRateOf(bitVector, bitsSet, numHashes)]
    /\ UNCHANGED <<phase, args, err, hashOf, bitVector, bitsSet, numHashes, inserted>>

\* b.numBitsSet()
NumBitsSet ==
    /\ phase = "ready"
    /\ ret' = [op |-> "numBitsSet", key |-> "", value |-> bitsSet]
    /\ UNCHANGED <<phase, args, err, hashOf, bitVector, bitsSet, numHashes, inserted>>

Next ==
    \/ Construct
    \/ \E key \in Keys : Insert(key)
    \/ \E key \in Keys : Find(key)
    \/ FalsePositiveRate
    \/ NumBitsSet

Spec == Init /\ [][Next]_vars

\* ----------------------------------------------------------- properties
\* numKeys >= 1, numHashes >= 1 and 0 < maxFalsePositive < 1
ArgsValid ==
    /\ args.numKeys >= 1
    /\ args.numHashes >= 1
    /\ 0 < args.maxFalsePositive[1]
    /\ args.maxFalsePositive[1] < args.maxFalsePositive[2]

\* The locations key is probed at in the current filter.
Probes(key) == {Location(bitVector, key, seed) : seed \in 1..numHashes}

AllProbesSet(key) == \A loc \in Probes(key) : bitVector[loc] = 1

\* C1. No false negatives: a find of a key that insert has been called with
\* returns True, whatever other keys were inserted before or after it.
C1_NoFalseNegatives ==
    (ret.op = "find" /\ ret.key \in inserted) => ret.value = TRUE

C1_Witness ==
    /\ ret.op = "find"
    /\ ret.key \in inserted
    /\ inserted = Keys
    /\ Probes(ret.key) # UNION {Probes(k) : k \in Keys \ {ret.key}}

\* C2. Counter consistency: in every state of a constructed filter bitsSet
\* (the value numBitsSet returns) is the number of 1-bits of the bit vector.
C2_CounterConsistency ==
    phase = "ready" => bitsSet = PopCount(bitVector)

C2_Witness ==
    /\ ret.op = "insert"
    /\ inserted = Keys
    /\ numHashes >= 2
    /\ Cardinality(Probes(ret.key)) < numHashes
    /\ \E k \in Keys \ {ret.key} : Probes(k) \cap Probes(ret.key) # {}

\* C3. Monotonic occupancy: bitsSet never decreases from one call to the
\* next, the size of the bit vector of a constructed filter never changes,
\* and 0 <= bitsSet <= N in every state.
C3_MonotonicOccupancy ==
    /\ [](phase = "ready" => (0 <= bitsSet /\ bitsSet <= Len(bitVector)))
    /\ [][/\ bitsSet' >= bitsSet
          /\ phase = "ready" => Len(bitVector') = Len(bitVector)]_vars

C3_Witness ==
    /\ ret.op = "insert"
    /\ Len(bitVector) >= 2
    /\ bitsSet = Len(bitVector)

\* C4. A construction with numKeys < 1, numHashes < 1 or maxFalsePositive
\* not strictly between 0 and 1 fails, and no filter is created.
C4_InvalidArgumentsRejected ==
    (phase # "new" /\ ~ArgsValid) => phase = "failed"

\* C5. Rate estimate sanity: the value falsePositiveRate returns is
\* (bitsSet / N)^d, it lies in [0, 1], and with N and d fixed no smaller
\* bitsSet gives a larger rate and no larger bitsSet a smaller one.
C5_RateSanity ==
    ret.op = "falsePositiveRate" =>
        LET n == Len(bitVector)
            rate(s) == FalsePositiveRateOf(bitVector, s, numHashes) IN
        /\ ret.value[2] > 0
        /\ RatLeq(<<0, 1>>, ret.value)
        /\ RatLeq(ret.value, <<1, 1>>)
        /\ RatLeq(ret.value, <<Pow(bitsSet, numHashes), Pow(n, numHashes)>>)
        /\ RatLeq(<<Pow(bitsSet, numHashes), Pow(n, numHashes)>>, ret.value)
        /\ \A s \in 0..n :
               /\ s <= bitsSet => RatLeq(rate(s), ret.value)
               /\ s >= bitsSet => RatLeq(ret.value, rate(s))

C5_Witness ==
    /\ ret.op = "falsePositiveRate"
    /\ numHashes >= 2
    /\ 0 < bitsSet
    /\ bitsSet < Len(bitVector)

\* C6. The first insert on a fresh filter: afterwards find of the inserted
\* key is True and 1 <= bitsSet <= d.
C6_FirstInsert ==
    [][\A key \in Keys :
          (phase = "ready" /\ inserted = {} /\ bitsSet = 0
             /\ ret'.op = "insert" /\ ret'.key = key)
          => /\ 1 <= bitsSet'
             /\ bitsSet' <= numHashes
             /\ bitsSet' = Cardinality(Probes(key))
             /\ FindOp(bitVector', numHashes', key).value = TRUE]_vars

C6_Witness ==
    /\ ret.op = "insert"
    /\ inserted = {ret.key}
    /\ numHashes = 2
    /\ bitsSet = 1

\* C7. On a filter constructed with valid arguments N is at least 1, every
\* probe location of every key lies in 0..N-1, and no insert or find has
\* raised an exception.
C7_ProbesInRange ==
    (phase = "ready" /\ ArgsValid) =>
        /\ Len(bitVector) >= 1
        /\ err = "none"
        /\ \A key \in Keys : \A seed \in 1..numHashes :
               /\ 0 <= Location(bitVector, key, seed)
               /\ Location(bitVector, key, seed) <= Len(bitVector) - 1

C7_Witness ==
    /\ phase = "ready"
    /\ ArgsValid
    /\ ret.op \in {"insert", "find"}
    /\ err = "none"
    /\ \E seed \in 1..numHashes : BitHash(ret.key, seed) >= Len(bitVector)

\* C8. find returns True exactly when the bit at every one of the d probe
\* locations of the key is 1, and False when at least one of them is 0.
C8_FindIffAllProbesSet ==
    ret.op = "find" =>
        (ret.value = TRUE <=>
            \A seed \in 1..numHashes :
                bitVector[BitHash(ret.key, seed) % Len(bitVector)] = 1)

C8_Witness ==
    /\ ret.op = "find"
    /\ ret.value = FALSE
    /\ numHashes >= 2
    /\ bitVector[Location(bitVector, ret.key, 1)] = 1

\* C9. find, falsePositiveRate and numBitsSet change neither the bit vector
\* nor bitsSet nor the number of hashes.
C9_ObserversChangeNothing ==
    [][ret'.op \in {"find", "falsePositiveRate", "numBitsSet"}
          => UNCHANGED <<bitVector, bitsSet, numHashes>>]_vars

C9_Witness ==
    /\ ret.op = "find"
    /\ ret.value = FALSE
    /\ bitsSet > 0
    /\ \E loc \in Probes(ret.key) : bitVector[loc] = 1

\* C10. insert is idempotent: the insert of a key whose d probe bits are all
\* 1 already changes neither the bit vector nor bitsSet, and a second insert
\* of a key right after the first changes nothing.
C10_InsertIdempotent ==
    /\ [][\A key \in Keys :
             (ret'.op = "insert" /\ ret'.key = key /\ AllProbesSet(key))
             => UNCHANGED <<bitVector, bitsSet>>]_vars
    /\ [](phase = "ready" =>
             \A key \in Keys :
                 LET once == InsertOp(bitVector, bitsSet, numHashes, key) IN
                 InsertOp(once.bv, once.count, numHashes, key) = once)

C10_Witness ==
    /\ ret.op = "insert"
    /\ bitsSet > 0
    /\ \E k \in inserted \ {ret.key} : Probes(ret.key) \subseteq Probes(k)

====
